---- MODULE Spec2Model ----
(***************************************************************************)
(* Model of the foodgram backend's shopping cart and of the shopping-list  *)
(* export (backend/api/views.py, DishController).                          *)
(*                                                                         *)
(* Strings are sequences of code points, so that Python's comparison of    *)
(* str (by code point), str.title() and sorted() are modelled by what they *)
(* do.  The database is modelled table by table, with the fields that the  *)
(* modelled handlers read.                                                 *)
(*                                                                         *)
(* api/serializers.py calls the recipe model Recipe and the quantity field *)
(* amount, recipes/models.py calls them Dish and quantity: they are read   *)
(* as the same model and the same field.                                   *)
(***************************************************************************)
EXTENDS Naturals, Sequences, FiniteSets

(***************************************************************************)
(* Bounds of the model.                                                    *)
(***************************************************************************)
MaxDishes == 2      \* Dish rows that are created
MaxLines == 2       \* ingredient items submitted with one recipe
MaxQuantity == 2    \* largest quantity submitted for one ingredient item
MaxDate == 2        \* calendar dates on which requests arrive
MaxCopies == 2      \* ShoppingList rows per (user, recipe) once the
                    \* uniqueness constraint is taken away (SpecViolated)
MaxInFlight == 2    \* requests that are being handled at the same time
MaxMoments == 3     \* states of the tables that one export lives through

(***************************************************************************)
(* Strings.                                                                *)
(***************************************************************************)
Str_egg == <<101, 103, 103>>       \* "egg"
Str_Egg == <<69, 103, 103>>        \* "Egg"
Str_g == <<103>>                   \* "g"
Str_pc == <<112, 99>>              \* "pc"
Str_Jam == <<74, 97, 109>>         \* "Jam"
Str_Pie == <<80, 105, 101>>        \* "Pie"

IsUpper(c) == c \in 65..90
IsLower(c) == c \in 97..122

\* Python compares str lexicographically by code point; a proper prefix is
\* smaller.
RECURSIVE StrLess(_, _)
StrLess(s, t) ==
    IF t = <<>> THEN FALSE
    ELSE IF s = <<>> THEN TRUE
    ELSE IF Head(s) # Head(t) THEN Head(s) < Head(t)
    ELSE StrLess(Tail(s), Tail(t))

\* str.title(): a cased character is upper-cased when it follows an uncased
\* one (or starts the string) and lower-cased when it follows a cased one.
RECURSIVE TitleFrom(_, _)
TitleFrom(s, prevCased) ==
    IF s = <<>> THEN <<>>
    ELSE LET c == Head(s)
             d == IF IsLower(c) /\ ~prevCased THEN c - 32
                  ELSE IF IsUpper(c) /\ prevCased THEN c + 32
                  ELSE c
         IN  <<d>> \o TitleFrom(Tail(s), IsLower(c) \/ IsUpper(c))

Title(s) == TitleFrom(s, FALSE)

\* s with its upper-case letters made lower-case.
Lowered(s) == [i \in 1..Len(s) |-> IF IsUpper(s[i]) THEN s[i] + 32 ELSE s[i]]

(***************************************************************************)
(* The users and the catalog.                                              *)
(***************************************************************************)
\* CustomUser rows; AnonymousUser is a request.user that is not
\* authenticated.
Users == {1, 2}
AnonymousUser == 0

\* Ingredient rows (loaded by the load_json command): (name,
\* measurement_unit) is unique, and the comparison is case-sensitive.
Ingredient ==
    [i \in 1..3 |->
        IF i = 1 THEN [name |-> Str_egg, measurement_unit |-> Str_pc]
        ELSE IF i = 2 THEN [name |-> Str_Egg, measurement_unit |-> Str_pc]
        ELSE [name |-> Str_egg, measurement_unit |-> Str_g]]

IngredientIds == DOMAIN Ingredient

\* Dish.name is a CharField without a uniqueness constraint.
DishNames == {Str_Jam, Str_Pie}

DishIds == 1..MaxDishes

\* The calendar dates timezone.localdate() returns.
Dates == 1..MaxDate

\* The handlers that run at the same time, one per slot.
Slots == 1..MaxInFlight

VARIABLES
    dish,             \* Dish rows: id -> [name] (and author, where the
                      \* recipes are given with their authors)
    ingredientAmount, \* IngredientAmount rows: [recipe, ingredient, quantity]
    shoppingList,     \* ShoppingList rows: user -> recipe -> number of rows
    response,         \* the response of the last request
    rerun,            \* the last two requests were exports of one user
                      \* on one date, with no other request in between
    customUser,       \* CustomUser rows: the ids of the accounts
    favorite,         \* Favorite rows: user -> recipe -> number of rows
    follow,           \* Follow rows: follower -> following -> number of rows
    request,          \* the request that has arrived and is answered by
                      \* response, once response is not NoResponse
    inflight,         \* slot -> the handler that has started in it and has
                      \* not returned yet
    storage           \* "up", or "down": every query raises an error

vars == <<dish, ingredientAmount, shoppingList, response, rerun,
          customUser, favorite, follow, request, inflight, storage>>

\* The tables that hold the accounts and the subscriptions.
accounts == <<customUser, follow>>


(***************************************************************************)
(* Responses.  Every handler leaves one: its HTTP status and, for a file   *)
(* the export returns, the user it was made for, its date, its rendered    *)
(* lines (body) and the handler's own sorted(ingredient_totals.items())    *)
(* (totals), of which body's numbered ingredient lines are the rendering,  *)
(* one to one and in order.                                                *)
(***************************************************************************)
Reply(handler, status) ==
    [handler |-> handler, user |-> AnonymousUser, status |-> status, date |-> 0,
     totals |-> <<>>, body |-> <<>>]

NoResponse == Reply("none", 0)

\* A request: the view's action and the HTTP method, request.user, the pk
\* of the URL and, for a recipe that is written, its name and ingredients.
Request(handler, method, user, pk, name, items, date) ==
    [handler |-> handler, method |-> method, user |-> user, pk |-> pk,
     name |-> name, items |-> items, date |-> date]

NoRequest == Request("none", "none", AnonymousUser, 0, <<>>, <<>>, 0)

\* A handler in flight: the statement it executes next (pc), its request
\* (user, pk, date, items) and its local variables (cart: the cart items
\* not iterated yet, fetched: what the loops have read).  seen is the
\* history of an export of a user: every state of the tables it has lived
\* through since it arrived.
Handler(handler, user, pk, date, pc, cart, fetched, items, seen) ==
    [handler |-> handler, user |-> user, pk |-> pk, date |-> date, pc |-> pc,
     cart |-> cart, fetched |-> fetched, items |-> items, seen |-> seen]

Idle == Handler("idle", AnonymousUser, 0, 0, "none", <<>>, <<>>, <<>>, {})

\* One state of the tables an export reads, as its user sees it.
Moment(u, d, l, c) == [dish |-> d, lines |-> l, cart |-> c[u]]

\* inflight after a statement that leaves the tables as (d, l, c): every
\* export in flight has lived through that state too.
Witnessed(d, l, c) ==
    [s \in Slots |->
        IF inflight[s].handler = "export" /\ inflight[s].user \in Users
        THEN [inflight[s] EXCEPT
                 !.seen = @ \cup {Moment(inflight[s].user, d, l, c)}]
        ELSE inflight[s]]

\* The tables without a row, every account registered.
NoRows == [u \in Users |-> [r \in DishIds |-> 0]]
NoFollow == [u \in Users |-> [v \in Users |-> 0]]

Init ==
    /\ dish = <<>>
    /\ ingredientAmount = {}
    /\ shoppingList = [u \in Users |-> [r \in DishIds |-> 0]]
    /\ response = NoResponse
    /\ rerun = FALSE
    /\ customUser = Users
    /\ favorite = NoRows
    /\ follow = NoFollow
    /\ request = NoRequest
    /\ inflight = [s \in Slots |-> Idle]
    /\ storage = "up"

(***************************************************************************)
(* Recipes: RecipeWriteSerializer.create.                                  *)
(***************************************************************************)
\* The "ingredients" lists a client submits: items of (ingredient, amount).
Item == [ingredient : IngredientIds, amount : 0..MaxQuantity]

RECURSIVE SeqsUpTo(_, _)
SeqsUpTo(S, n) ==
    IF n = 0 THEN {<<>>}
    ELSE LET shorter == SeqsUpTo(S, n - 1)
         IN  shorter \cup {Append(s, x) : s \in {t \in shorter : Len(t) = n - 1}, x \in S}

ItemLists == SeqsUpTo(Item, MaxLines)

\* Mutant: the lower limit is zero.
validate_amount_or_zero(value) == value >= 0

\* validate_amount: an amount below settings.MIN_INGREDIENT_QUANTITY (which
\* the error message gives as "greater than zero") is refused.  The upper
\* limit of the setting MIN_INGREDIENT_AMOUNT lies above MaxQuantity.
validate_amount(value) == value >= 1

\* validate_ingredients: an empty list is refused.
validate_ingredients(value) == value # <<>>

\* UniqueConstraint recipe_ingredient_unique: the rows of one bulk_create
\* name every ingredient at most once.
recipe_ingredient_unique(items) ==
    \A i, j \in 1..Len(items) :
        items[i].ingredient = items[j].ingredient => i = j

\* _bulk_save_ingredients: one IngredientAmount row per item.
bulk_save_ingredients(recipe, items) ==
    {[recipe |-> recipe, ingredient |-> items[i].ingredient,
      quantity |-> items[i].amount] : i \in 1..Len(items)}

\* POST /recipes/: is_valid, then create.  Recipe.objects.create is
\* committed before bulk_create runs, so a bulk_create refused by the
\* uniqueness constraint leaves the recipe without ingredient lines.
CreateDish(u, name, items) ==
    /\ Len(dish) < MaxDishes
    /\ IF ~validate_ingredients(items)
          \/ \E i \in 1..Len(items) : ~validate_amount(items[i].amount)
       THEN /\ response' = Reply("create", 400)
            /\ UNCHANGED <<dish, ingredientAmount>>
       ELSE /\ dish' = Append(dish, [name |-> name])
            /\ IF recipe_ingredient_unique(items)
               THEN /\ ingredientAmount' =
                           ingredientAmount \cup
                               bulk_save_ingredients(Len(dish) + 1, items)
                    /\ response' = Reply("create", 201)
               ELSE /\ UNCHANGED ingredientAmount
                    /\ response' = Reply("create", 500)
    /\ rerun' = FALSE
    /\ UNCHANGED <<shoppingList, favorite, accounts, request, storage>>
    /\ inflight' = Witnessed(dish', ingredientAmount', shoppingList')

(***************************************************************************)
(* The cart: DishController.manage_cart and _handle_bookmark with the      *)
(* ShoppingList relation.                                                  *)
(***************************************************************************)
\* Mutant: the flag that get_or_create returns is not looked at.
handle_bookmark_unflagged(rows) ==
    IF rows = 0 THEN [rows |-> 1, status |-> 201]
    ELSE [rows |-> rows, status |-> 201]

\* get_or_create(user, recipe): the number of rows afterwards and the
\* status, for the number of rows before.  get() of several rows raises
\* MultipleObjectsReturned.
handle_bookmark(rows) ==
    IF rows = 0 THEN [rows |-> 1, status |-> 201]
    ELSE IF rows = 1 THEN [rows |-> rows, status |-> 400]
    ELSE [rows |-> rows, status |-> 500]

\* POST /recipes/{pk}/shopping_cart/
AddToCart(u, pk) ==
    /\ IF pk \notin DOMAIN dish
       THEN /\ response' = Reply("manage_cart", 404)
            /\ UNCHANGED shoppingList
       ELSE LET got == handle_bookmark(shoppingList[u][pk])
            IN  /\ shoppingList' = [shoppingList EXCEPT ![u][pk] = got.rows]
                /\ response' = Reply("manage_cart", got.status)
    /\ rerun' = FALSE
    /\ UNCHANGED <<dish, ingredientAmount, favorite, accounts, request, storage>>
    /\ inflight' = Witnessed(dish', ingredientAmount', shoppingList')

\* Mutant: the rows of the recipe are deleted whoever their user is.
RemoveFromEveryCart(u, pk) ==
    /\ IF pk \notin DOMAIN dish
       THEN /\ response' = Reply("manage_cart", 404)
            /\ UNCHANGED shoppingList
       ELSE /\ shoppingList' = [v \in Users |->
                                   [shoppingList[v] EXCEPT ![pk] = 0]]
            /\ response' = Reply("manage_cart", 204)
    /\ rerun' = FALSE
    /\ UNCHANGED <<dish, ingredientAmount, favorite, accounts, request, storage>>
    /\ inflight' = Witnessed(dish', ingredientAmount', shoppingList')

\* DELETE /recipes/{pk}/shopping_cart/: filter(user, recipe).delete()
RemoveFromCart(u, pk) ==
    /\ IF pk \notin DOMAIN dish
       THEN /\ response' = Reply("manage_cart", 404)
            /\ UNCHANGED shoppingList
       ELSE /\ shoppingList' = [shoppingList EXCEPT ![u][pk] = 0]
            /\ response' = Reply("manage_cart", 204)
    /\ rerun' = FALSE
    /\ UNCHANGED <<dish, ingredientAmount, favorite, accounts, request, storage>>
    /\ inflight' = Witnessed(dish', ingredientAmount', shoppingList')

(***************************************************************************)
(* What the export reads.  No queryset of it is ordered (ShoppingList and  *)
(* IngredientAmount have no Meta.ordering), so the rows come in any order. *)
(***************************************************************************)
RECURSIVE Orderings(_)
Orderings(S) ==
    IF S = {} THEN {<<>>}
    ELSE UNION {{<<x>> \o s : s \in Orderings(S \ {x})} : x \in S}

\* Mutant: the rows of every user's cart (ShoppingList.objects.all()).
EveryShoppingListRow(u) ==
    UNION {{<<r, n, v>> : n \in 1..shoppingList[v][r]} :
             r \in DOMAIN dish, v \in Users}

\* Mutant: one row per recipe (the query made distinct by recipe).
DistinctShoppingListRows(u) ==
    {<<r, 1>> : r \in {x \in DOMAIN dish : shoppingList[u][x] > 0}}

\* The ShoppingList rows of a user: <<recipe, n>> is the n-th row of
\* (user, recipe).
ShoppingListRows(u) ==
    UNION {{<<r, n>> : n \in 1..shoppingList[u][r]} : r \in DOMAIN dish}

\* request.user.shopping_lists.select_related("recipe"): the recipe of
\* each row, the rows in some order.
shopping_lists(u) ==
    {[i \in 1..Len(o) |-> o[i][1]] : o \in Orderings(ShoppingListRows(u))}

\* recipe.components_amounts.select_related("ingredient")
components_amounts(r) ==
    Orderings({a \in ingredientAmount : a.recipe = r})

\* One run's reads: for every cart item in turn, its recipe and the
\* recipe's ingredient lines as that query returned them.
RECURSIVE WithComponents(_)
WithComponents(items) ==
    IF items = <<>> THEN {<<>>}
    ELSE {<<[recipe |-> Head(items), components |-> c]>> \o rest :
            c \in components_amounts(Head(items)),
            rest \in WithComponents(Tail(items))}

Fetches(u) == UNION {WithComponents(items) : items \in shopping_lists(u)}

(***************************************************************************)
(* DishController.export_shopping_list.                                    *)
(***************************************************************************)
\* Mutant: the name is lower-cased before it becomes part of the key.
IngredientKeyLower(component) ==
    <<Lowered(Ingredient[component.ingredient].name),
      Ingredient[component.ingredient].measurement_unit>>

\* key = (component.ingredient.name, component.ingredient.measurement_unit)
IngredientKey(component) ==
    <<Ingredient[component.ingredient].name,
      Ingredient[component.ingredient].measurement_unit>>

\* Mutant: ingredient_totals[key] = quantity.
AddTotalOverwrite(totals, key, quantity) ==
    IF \E i \in 1..Len(totals) : totals[i].key = key
    THEN [i \in 1..Len(totals) |->
            IF totals[i].key = key
            THEN [key |-> key, total |-> quantity]
            ELSE totals[i]]
    ELSE Append(totals, [key |-> key, total |-> quantity])

\* Mutant: a list of (key, quantity) pairs instead of a dict.
AddTotalNoMerge(totals, key, quantity) ==
    Append(totals, [key |-> key, total |-> quantity])

\* ingredient_totals[key] += quantity, on a defaultdict(int).  The dict is
\* the sequence of its items in insertion order.
AddTotal(totals, key, quantity) ==
    IF \E i \in 1..Len(totals) : totals[i].key = key
    THEN [i \in 1..Len(totals) |->
            IF totals[i].key = key
            THEN [key |-> key, total |-> totals[i].total + quantity]
            ELSE totals[i]]
    ELSE Append(totals, [key |-> key, total |-> 0 + quantity])

\* The inner loop, over one recipe's ingredient lines.
RECURSIVE AddComponents(_, _)
AddComponents(totals, components) ==
    IF components = <<>> THEN totals
    ELSE AddComponents(
            AddTotal(totals, IngredientKey(Head(components)),
                     Head(components).quantity),
            Tail(components))

\* recipe_names.add(cart_item.recipe.name)
AddRecipeName(names, recipe) == names \cup {dish[recipe].name}

\* The outer loop, over the cart items.
RECURSIVE Aggregate(_, _)
Aggregate(acc, fetched) ==
    IF fetched = <<>> THEN acc
    ELSE Aggregate(
            [recipe_names |->
                AddRecipeName(acc.recipe_names, Head(fetched).recipe),
             ingredient_totals |->
                AddComponents(acc.ingredient_totals,
                              Head(fetched).components)],
            Tail(fetched))

\* Mutant: sorted(..., key=name), the unit left out of the comparison.
ItemLessByName(a, b) == StrLess(a.key[1], b.key[1])

\* Python's order of the tuples ((name, unit), total).
ItemLess(a, b) ==
    \/ StrLess(a.key[1], b.key[1])
    \/ a.key[1] = b.key[1] /\ StrLess(a.key[2], b.key[2])
    \/ a.key = b.key /\ a.total < b.total

\* Mutant: no comparison, x goes to the front.
InsertItemFront(x, sortedItems) == <<x>> \o sortedItems

\* sorted(): stable, ascending.  x goes behind the elements that are not
\* greater than it.
RECURSIVE InsertItem(_, _)
InsertItem(x, sortedItems) ==
    IF sortedItems = <<>> THEN <<x>>
    ELSE IF ItemLess(x, Head(sortedItems)) THEN <<x>> \o sortedItems
    ELSE <<Head(sortedItems)>> \o InsertItem(x, Tail(sortedItems))

RECURSIVE SortedFrom(_, _)
SortedFrom(done, items) ==
    IF items = <<>> THEN done
    ELSE SortedFrom(InsertItem(Head(items), done), Tail(items))

\* Mutant: ingredient_totals.items() as the dict holds them.
UnsortedItems(items) == items

\* sorted(ingredient_totals.items())
SortedItems(items) == SortedFrom(<<>>, items)

\* sorted(recipe_names): the names of the set, ascending.
RECURSIVE SortedNames(_)
SortedNames(names) ==
    IF names = {} THEN <<>>
    ELSE LET least == CHOOSE n \in names :
                        \A m \in names \ {n} : StrLess(n, m)
         IN  <<least>> \o SortedNames(names \ {least})

\* The lines of the file.
Line(kind, idx, name, unit, total) ==
    [kind |-> kind, idx |-> idx, name |-> name, unit |-> unit,
     total |-> total]

\* f"Список покупок ({current_date}):" and "Ингредиенты:"
HeaderLines(date) ==
    <<Line("title", 0, <<>>, <<>>, date),
      Line("ingredients", 0, <<>>, <<>>, 0)>>

\* f"{idx}. {name.title()} ({unit}) — {total}", idx from 1
IngredientLines(items) ==
    [i \in 1..Len(items) |->
        Line("ingredient", i, Title(items[i].key[1]), items[i].key[2],
             items[i].total)]

\* "\nИсточники рецептов:"
SourcesLine == Line("sources", 0, <<>>, <<>>, 0)

\* f"{idx}. {name}", idx from 1
RecipeLines(names) ==
    [i \in 1..Len(names) |-> Line("recipe", i, names[i], <<>>, 0)]

\* Mutant: an empty cart is answered with an error instead of a file.
ExportReplyOrNotFound(u, fetched, date) ==
    LET acc == Aggregate([recipe_names |-> {}, ingredient_totals |-> <<>>],
                         fetched)
        items == SortedItems(acc.ingredient_totals)
    IN  IF fetched = <<>>
        THEN [handler |-> "export", user |-> u, status |-> 404,
              date |-> date, totals |-> <<>>, body |-> <<>>]
        ELSE [handler |-> "export", user |-> u, status |-> 200,
              date |-> date, totals |-> items,
              body |-> HeaderLines(date) \o IngredientLines(items)
                         \o <<SourcesLine>>
                         \o RecipeLines(SortedNames(acc.recipe_names))]

\* The body of export_shopping_list for an authenticated user, from what
\* its queries returned.
ExportReply(u, fetched, date) ==
    LET acc == Aggregate([recipe_names |-> {}, ingredient_totals |-> <<>>],
                         fetched)
        items == SortedItems(acc.ingredient_totals)
    IN  [handler |-> "export", user |-> u, status |-> 200, date |-> date,
         totals |-> items,
         body |-> HeaderLines(date) \o IngredientLines(items)
                    \o <<SourcesLine>>
                    \o RecipeLines(SortedNames(acc.recipe_names))]

\* Mutant: the cart of the user is emptied once its file is made.
ExportAndEmpty(u, date) ==
    /\ IF u = AnonymousUser
       THEN /\ response' = Reply("export", 403)
            /\ UNCHANGED shoppingList
       ELSE /\ \E fetched \in Fetches(u) :
                    response' = ExportReply(u, fetched, date)
            /\ shoppingList' =
                   [shoppingList EXCEPT ![u] = [r \in DishIds |-> 0]]
    /\ rerun' = /\ u # AnonymousUser
                /\ response.handler = "export"
                /\ response.user = u
                /\ response.date = date
    /\ UNCHANGED <<dish, ingredientAmount, favorite, accounts,
                   request, inflight, storage>>

\* GET /recipes/download_shopping_cart/ on the day timezone.localdate()
\* gives as date.
Export(u, date) ==
    /\ IF u = AnonymousUser
       THEN response' = Reply("export", 403)
       ELSE \E fetched \in Fetches(u) :
                response' = ExportReply(u, fetched, date)
    /\ rerun' = /\ u # AnonymousUser
                /\ response.handler = "export"
                /\ response.user = u
                /\ response.date = date
    /\ UNCHANGED <<dish, ingredientAmount, shoppingList, favorite, accounts,
                   request, inflight, storage>>

Next ==
    \/ \E u \in Users, name \in DishNames, items \in ItemLists :
           CreateDish(u, name, items)
    \/ \E u \in Users, pk \in DishIds : AddToCart(u, pk)
    \/ \E u \in Users, pk \in DishIds : RemoveFromCart(u, pk)
    \/ \E u \in Users \cup {AnonymousUser}, date \in Dates : Export(u, date)

Spec == Init /\ [][Next]_vars

(***************************************************************************)
(* The export on a cart that breaks user_shopping_recipe_unique.  The      *)
(* constraint keeps every state of Spec at one row per (user, recipe) at   *)
(* most, so the handler is given such carts as inputs here: recipes with   *)
(* valid ingredient lists, and in the cart of user 1 one recipe with       *)
(* several rows, up to MaxCopies (the other cart is empty).                *)
(***************************************************************************)
ValidLines(r) ==
    {bulk_save_ingredients(r, items) :
        items \in {l \in ItemLists :
                      /\ validate_ingredients(l)
                      /\ \A i \in 1..Len(l) : validate_amount(l[i].amount)
                      /\ recipe_ingredient_unique(l)}}

InitViolated ==
    /\ dish \in SeqsUpTo([name : DishNames], MaxDishes) \ {<<>>}
    /\ ingredientAmount \in
           {UNION {f[r] : r \in DOMAIN dish} :
               f \in {g \in [DOMAIN dish -> UNION {ValidLines(r) : r \in DOMAIN dish}] :
                         \A r \in DOMAIN dish : g[r] \in ValidLines(r)}}
    /\ shoppingList \in
           {c \in [Users -> [DishIds -> 0..MaxCopies]] :
               /\ \A u \in Users, r \in DishIds \ DOMAIN dish : c[u][r] = 0
               /\ \A u \in Users \ {1}, r \in DishIds : c[u][r] = 0
               /\ Cardinality({r \in DishIds : c[1][r] > 1}) = 1}
    /\ response = NoResponse
    /\ rerun = FALSE
    /\ customUser = Users
    /\ favorite = NoRows
    /\ follow = NoFollow
    /\ request = NoRequest
    /\ inflight = [s \in Slots |-> Idle]
    /\ storage = "up"

NextViolated ==
    \E u \in Users \cup {AnonymousUser}, date \in Dates : Export(u, date)

SpecViolated == InitViolated /\ [][NextViolated]_vars

(***************************************************************************)
(* The other handlers of the site, each run from its first statement to    *)
(* its response with no other request in between.                          *)
(***************************************************************************)
\* _modify_recipe_list, POST: exists(), then create().  Run alone, create()
\* follows an exists() that found no row and is not refused.
modify_recipe_list(rows) ==
    IF rows > 0 THEN [rows |-> rows, status |-> 400]
    ELSE [rows |-> 1, status |-> 201]

\* RecipeViewSet.shopping_list, POST /recipes/{pk}/shopping-list/
ShoppingListPost(u, pk) ==
    /\ IF pk \notin DOMAIN dish
       THEN /\ response' = Reply("shopping_list", 404)
            /\ UNCHANGED shoppingList
       ELSE LET got == modify_recipe_list(shoppingList[u][pk])
            IN  /\ shoppingList' = [shoppingList EXCEPT ![u][pk] = got.rows]
                /\ response' = Reply("shopping_list", got.status)
    /\ rerun' = FALSE
    /\ UNCHANGED <<dish, ingredientAmount, favorite, accounts, request, storage>>
    /\ inflight' = Witnessed(dish', ingredientAmount', shoppingList')

\* Mutant: a row that is not there is answered with 404.
ShoppingListDeleteOr404(u, pk) ==
    /\ IF pk \notin DOMAIN dish \/ shoppingList[u][pk] = 0
       THEN /\ response' = Reply("shopping_list", 404)
            /\ UNCHANGED shoppingList
       ELSE /\ shoppingList' = [shoppingList EXCEPT ![u][pk] = 0]
            /\ response' = Reply("shopping_list", 204)
    /\ rerun' = FALSE
    /\ UNCHANGED <<dish, ingredientAmount, favorite, accounts, request, storage>>
    /\ inflight' = Witnessed(dish', ingredientAmount', shoppingList')

\* RecipeViewSet.shopping_list, DELETE: filter(user, recipe).delete()
ShoppingListDelete(u, pk) ==
    /\ IF pk \notin DOMAIN dish
       THEN /\ response' = Reply("shopping_list", 404)
            /\ UNCHANGED shoppingList
       ELSE /\ shoppingList' = [shoppingList EXCEPT ![u][pk] = 0]
            /\ response' = Reply("shopping_list", 204)
    /\ rerun' = FALSE
    /\ UNCHANGED <<dish, ingredientAmount, favorite, accounts, request, storage>>
    /\ inflight' = Witnessed(dish', ingredientAmount', shoppingList')

\* DishController.add_to_favorites, POST /recipes/{pk}/favorite/
AddToFavorites(u, pk) ==
    /\ IF pk \notin DOMAIN dish
       THEN /\ response' = Reply("add_to_favorites", 404)
            /\ UNCHANGED favorite
       ELSE LET got == handle_bookmark(favorite[u][pk])
            IN  /\ favorite' = [favorite EXCEPT ![u][pk] = got.rows]
                /\ response' = Reply("add_to_favorites", got.status)
    /\ rerun' = FALSE
    /\ UNCHANGED <<dish, ingredientAmount, shoppingList, accounts, request,
                   inflight, storage>>

\* DishController.add_to_favorites, DELETE
RemoveFromFavorites(u, pk) ==
    /\ IF pk \notin DOMAIN dish
       THEN /\ response' = Reply("add_to_favorites", 404)
            /\ UNCHANGED favorite
       ELSE /\ favorite' = [favorite EXCEPT ![u][pk] = 0]
            /\ response' = Reply("add_to_favorites", 204)
    /\ rerun' = FALSE
    /\ UNCHANGED <<dish, ingredientAmount, shoppingList, accounts, request,
                   inflight, storage>>

\* RecipeViewSet.favorite_recipe, POST
FavoriteRecipePost(u, pk) ==
    /\ IF pk \notin DOMAIN dish
       THEN /\ response' = Reply("favorite_recipe", 404)
            /\ UNCHANGED favorite
       ELSE LET got == modify_recipe_list(favorite[u][pk])
            IN  /\ favorite' = [favorite EXCEPT ![u][pk] = got.rows]
                /\ response' = Reply("favorite_recipe", got.status)
    /\ rerun' = FALSE
    /\ UNCHANGED <<dish, ingredientAmount, shoppingList, accounts, request,
                   inflight, storage>>

\* RecipeViewSet.favorite_recipe, DELETE
FavoriteRecipeDelete(u, pk) ==
    /\ IF pk \notin DOMAIN dish
       THEN /\ response' = Reply("favorite_recipe", 404)
            /\ UNCHANGED favorite
       ELSE /\ favorite' = [favorite EXCEPT ![u][pk] = 0]
            /\ response' = Reply("favorite_recipe", 204)
    /\ rerun' = FALSE
    /\ UNCHANGED <<dish, ingredientAmount, shoppingList, accounts, request,
                   inflight, storage>>

\* AccountManager.follow_author, POST /users/{id}/subscribe/: the target is
\* looked up, then compared with request.user, then get_or_create.
Subscribe(u, id) ==
    /\ IF id \notin customUser
       THEN /\ response' = Reply("follow_author", 404)
            /\ UNCHANGED follow
       ELSE IF id = u
       THEN /\ response' = Reply("follow_author", 400)
            /\ UNCHANGED follow
       ELSE LET got == handle_bookmark(follow[u][id])
            IN  /\ follow' = [follow EXCEPT ![u][id] = got.rows]
                /\ response' = Reply("follow_author", got.status)
    /\ rerun' = FALSE
    /\ UNCHANGED <<dish, ingredientAmount, shoppingList, favorite, customUser,
                   request, inflight, storage>>

\* AccountManager.follow_author, DELETE
Unsubscribe(u, id) ==
    /\ IF id \notin customUser
       THEN /\ response' = Reply("follow_author", 404)
            /\ UNCHANGED follow
       ELSE IF id = u
       THEN /\ response' = Reply("follow_author", 400)
            /\ UNCHANGED follow
       ELSE /\ follow' = [follow EXCEPT ![u][id] = 0]
            /\ response' = Reply("follow_author", 204)
    /\ rerun' = FALSE
    /\ UNCHANGED <<dish, ingredientAmount, shoppingList, favorite, customUser,
                   request, inflight, storage>>

\* The ingredient lines of the other recipes: what
\* instance.components_amounts.all().delete() leaves.
delete_components(pk) == {a \in ingredientAmount : a.recipe # pk}

\* PUT /recipes/{pk}/: get_object, is_valid, then
\* RecipeWriteSerializer.update: the fields are saved, the ingredient lines
\* of the recipe are deleted, the submitted ones are created.  Each of the
\* three is committed on its own, so a bulk_create refused by the
\* uniqueness constraint leaves the recipe renamed and without lines.
UpdateDish(u, pk, name, items) ==
    /\ IF pk \notin DOMAIN dish
       THEN /\ response' = Reply("update", 404)
            /\ UNCHANGED <<dish, ingredientAmount>>
       ELSE IF ~validate_ingredients(items)
               \/ \E i \in 1..Len(items) : ~validate_amount(items[i].amount)
       THEN /\ response' = Reply("update", 400)
            /\ UNCHANGED <<dish, ingredientAmount>>
       ELSE /\ dish' = [dish EXCEPT ![pk].name = name]
            /\ IF recipe_ingredient_unique(items)
               THEN /\ ingredientAmount' =
                           delete_components(pk) \cup
                               bulk_save_ingredients(pk, items)
                    /\ response' = Reply("update", 200)
               ELSE /\ ingredientAmount' = delete_components(pk)
                    /\ response' = Reply("update", 500)
    /\ rerun' = FALSE
    /\ UNCHANGED <<shoppingList, favorite, accounts, request, storage>>
    /\ inflight' = Witnessed(dish', ingredientAmount', shoppingList')

(***************************************************************************)
(* The site with two recipes published: "Jam" by user 1, "Pie" by user 2.  *)
(* A request arrives (Submit), then its handler answers it.                *)
(***************************************************************************)
GivenDish ==
    <<[name |-> Str_Jam, author |-> 1], [name |-> Str_Pie, author |-> 2]>>

GivenLines ==
    bulk_save_ingredients(1, <<[ingredient |-> 1, amount |-> 1]>>)
        \cup bulk_save_ingredients(2, <<[ingredient |-> 1, amount |-> 2],
                                        [ingredient |-> 3, amount |-> 1]>>)

InitSite ==
    /\ dish = GivenDish
    /\ ingredientAmount = GivenLines
    /\ shoppingList = NoRows
    /\ response = NoResponse
    /\ rerun = FALSE
    /\ customUser = Users
    /\ favorite = NoRows
    /\ follow = NoFollow
    /\ request = NoRequest
    /\ inflight = [s \in Slots |-> Idle]
    /\ storage = "up"

\* The ingredients list the site's clients submit with an update.
SiteItems == <<[ingredient |-> 3, amount |-> 2]>>

\* The requests the site receives: the cart through both views for every
\* recipe id, the favorites through both views for recipe 1, the
\* subscriptions, the update of a recipe under its own name, the export on
\* date 1.
SiteRequests ==
    {Request(h, m, u, pk, <<>>, <<>>, 0) :
        h \in {"manage_cart", "shopping_list"}, m \in {"POST", "DELETE"},
        u \in Users, pk \in DishIds}
    \cup {Request(h, m, u, 1, <<>>, <<>>, 0) :
        h \in {"add_to_favorites", "favorite_recipe"},
        m \in {"POST", "DELETE"}, u \in Users}
    \cup {Request("follow_author", m, u, id, <<>>, <<>>, 0) :
        m \in {"POST", "DELETE"}, u \in Users, id \in Users}
    \cup {Request("update", "PUT", u, pk, GivenDish[pk].name, SiteItems, 0) :
        u \in Users, pk \in DOMAIN GivenDish}
    \cup {Request("export", "GET", u, 0, <<>>, <<>>, 1) :
        u \in Users \cup {AnonymousUser}}

Submit(rq) ==
    /\ request' = rq
    /\ response' = NoResponse
    /\ UNCHANGED <<dish, ingredientAmount, shoppingList, rerun, favorite,
                   accounts, inflight, storage>>

\* The request that has arrived and has no response yet.
Arrived(handler, method) ==
    /\ response = NoResponse
    /\ request.handler = handler
    /\ request.method = method

NextSite ==
    \/ \E rq \in SiteRequests : Submit(rq)
    \/ Arrived("manage_cart", "POST") /\ AddToCart(request.user, request.pk)
    \/ Arrived("manage_cart", "DELETE")
           /\ RemoveFromCart(request.user, request.pk)
    \/ Arrived("shopping_list", "POST")
           /\ ShoppingListPost(request.user, request.pk)
    \/ Arrived("shopping_list", "DELETE")
           /\ ShoppingListDelete(request.user, request.pk)
    \/ Arrived("add_to_favorites", "POST")
           /\ AddToFavorites(request.user, request.pk)
    \/ Arrived("add_to_favorites", "DELETE")
           /\ RemoveFromFavorites(request.user, request.pk)
    \/ Arrived("favorite_recipe", "POST")
           /\ FavoriteRecipePost(request.user, request.pk)
    \/ Arrived("favorite_recipe", "DELETE")
           /\ FavoriteRecipeDelete(request.user, request.pk)
    \/ Arrived("follow_author", "POST")
           /\ Subscribe(request.user, request.pk)
    \/ Arrived("follow_author", "DELETE")
           /\ Unsubscribe(request.user, request.pk)
    \/ Arrived("update", "PUT")
           /\ UpdateDish(request.user, request.pk, request.name, request.items)
    \/ Arrived("export", "GET") /\ Export(request.user, request.date)

SpecSite == InitSite /\ [][NextSite]_vars

(***************************************************************************)
(* The cart handlers statement by statement, several of them in flight.    *)
(* Every statement is committed on its own (autocommit), and the           *)
(* statements of the handlers in flight interleave in any order.           *)
(***************************************************************************)
\* Mutant: the table without its uniqueness constraint.
NoUniqueConstraint(rows) == TRUE

\* UniqueConstraint user_shopping_recipe_unique: the database accepts the
\* INSERT of (user, recipe) when the table holds no row of that pair.
user_shopping_recipe_unique(rows) == rows = 0

\* The handler of slot s returns: its response, and the slot is free.
Return(s, handler, status) ==
    /\ response' = Reply(handler, status)
    /\ inflight' = [Witnessed(dish', ingredientAmount', shoppingList')
                        EXCEPT ![s] = Idle]

\* The handler of slot s goes on to its next statement.
Goto(s, h) ==
    /\ inflight' = [Witnessed(dish', ingredientAmount', shoppingList')
                        EXCEPT ![s] = h]
    /\ UNCHANGED response

\* manage_cart, POST: get_object_or_404, then the get() of get_or_create.
BookmarkGet(s, u, pk) ==
    /\ inflight[s] = Idle
    /\ UNCHANGED <<dish, ingredientAmount, shoppingList>>
    /\ IF pk \notin DOMAIN dish THEN Return(s, "manage_cart", 404)
       ELSE IF shoppingList[u][pk] = 1 THEN Return(s, "manage_cart", 400)
       ELSE IF shoppingList[u][pk] > 1 THEN Return(s, "manage_cart", 500)
       ELSE Goto(s, Handler("manage_cart", u, pk, 0, "create",
                            <<>>, <<>>, <<>>, {}))
    /\ rerun' = FALSE
    /\ UNCHANGED <<favorite, accounts, request, storage>>

\* get() raised DoesNotExist: the create() of get_or_create.  An
\* IntegrityError of the INSERT is caught, and get() is tried again.
BookmarkCreate(s) ==
    /\ inflight[s].handler = "manage_cart"
    /\ inflight[s].pc = "create"
    /\ UNCHANGED <<dish, ingredientAmount>>
    /\ LET u == inflight[s].user
           pk == inflight[s].pk
       IN  IF user_shopping_recipe_unique(shoppingList[u][pk])
           THEN /\ shoppingList' =
                       [shoppingList EXCEPT ![u][pk] = shoppingList[u][pk] + 1]
                /\ Return(s, "manage_cart", 201)
           ELSE /\ UNCHANGED shoppingList
                /\ Goto(s, [inflight[s] EXCEPT !.pc = "get_again"])
    /\ rerun' = FALSE
    /\ UNCHANGED <<favorite, accounts, request, storage>>

\* The second get() of get_or_create: the row that refused the INSERT is
\* returned with created = False; if it is gone, the IntegrityError is
\* raised again.
BookmarkGetAgain(s) ==
    /\ inflight[s].handler = "manage_cart"
    /\ inflight[s].pc = "get_again"
    /\ UNCHANGED <<dish, ingredientAmount, shoppingList>>
    /\ IF shoppingList[inflight[s].user][inflight[s].pk] = 1
       THEN Return(s, "manage_cart", 400)
       ELSE Return(s, "manage_cart", 500)
    /\ rerun' = FALSE
    /\ UNCHANGED <<favorite, accounts, request, storage>>

\* shopping_list, POST: get_object_or_404, then filter(...).exists().
ModifyExists(s, u, pk) ==
    /\ inflight[s] = Idle
    /\ UNCHANGED <<dish, ingredientAmount, shoppingList>>
    /\ IF pk \notin DOMAIN dish THEN Return(s, "shopping_list", 404)
       ELSE IF shoppingList[u][pk] > 0 THEN Return(s, "shopping_list", 400)
       ELSE Goto(s, Handler("shopping_list", u, pk, 0, "create",
                            <<>>, <<>>, <<>>, {}))
    /\ rerun' = FALSE
    /\ UNCHANGED <<favorite, accounts, request, storage>>

\* exists() was False: relation_model.objects.create().  Nothing catches
\* the IntegrityError of the INSERT.
ModifyCreate(s) ==
    /\ inflight[s].handler = "shopping_list"
    /\ inflight[s].pc = "create"
    /\ UNCHANGED <<dish, ingredientAmount>>
    /\ LET u == inflight[s].user
           pk == inflight[s].pk
       IN  IF user_shopping_recipe_unique(shoppingList[u][pk])
           THEN /\ shoppingList' =
                       [shoppingList EXCEPT ![u][pk] = shoppingList[u][pk] + 1]
                /\ Return(s, "shopping_list", 201)
           ELSE /\ UNCHANGED shoppingList
                /\ Return(s, "shopping_list", 500)
    /\ rerun' = FALSE
    /\ UNCHANGED <<favorite, accounts, request, storage>>

\* The requests to the cart through both views, in any interleaving of
\* their statements.  The DELETE of either view is one statement.
NextRace ==
    \/ \E s \in Slots, u \in Users, pk \in DishIds : BookmarkGet(s, u, pk)
    \/ \E s \in Slots : BookmarkCreate(s)
    \/ \E s \in Slots : BookmarkGetAgain(s)
    \/ \E s \in Slots, u \in Users, pk \in DishIds : ModifyExists(s, u, pk)
    \/ \E s \in Slots : ModifyCreate(s)
    \/ \E u \in Users, pk \in DishIds : RemoveFromCart(u, pk)
    \/ \E u \in Users, pk \in DishIds : ShoppingListDelete(u, pk)

SpecRace == InitSite /\ [][NextRace]_vars

(***************************************************************************)
(* Deletion.  Every ForeignKey of recipes/models.py and users/models.py is *)
(* on_delete=CASCADE: the rows that refer to a deleted row go with it.     *)
(***************************************************************************)
\* The recipes that go with a set of accounts: Dish.author.
created_dishes(users) == {r \in DOMAIN dish : dish[r].author \in users}

\* A table of rows per (user, recipe) without the rows of the given
\* accounts and recipes.
Cascade(rows, users, recipes) ==
    [u \in Users |-> [r \in DishIds |->
        IF u \in users \/ r \in recipes THEN 0 ELSE rows[u][r]]]

\* Mutant: ShoppingList.recipe with on_delete=DO_NOTHING.
DestroyDishKeepCart(u, pk) ==
    /\ IF pk \notin DOMAIN dish
       THEN /\ response' = Reply("destroy", 404)
            /\ UNCHANGED <<dish, ingredientAmount, shoppingList, favorite>>
       ELSE /\ dish' = [r \in DOMAIN dish \ {pk} |-> dish[r]]
            /\ ingredientAmount' = delete_components(pk)
            /\ UNCHANGED shoppingList
            /\ favorite' = Cascade(favorite, {}, {pk})
            /\ response' = Reply("destroy", 204)
    /\ rerun' = FALSE
    /\ UNCHANGED <<accounts, request, storage>>
    /\ inflight' = Witnessed(dish', ingredientAmount', shoppingList')

\* DELETE /recipes/{pk}/ (ModelViewSet.destroy, open to every authenticated
\* user): the recipe goes with its ingredient lines, cart entries and
\* favorites.
DestroyDish(u, pk) ==
    /\ IF pk \notin DOMAIN dish
       THEN /\ response' = Reply("destroy", 404)
            /\ UNCHANGED <<dish, ingredientAmount, shoppingList, favorite>>
       ELSE /\ dish' = [r \in DOMAIN dish \ {pk} |-> dish[r]]
            /\ ingredientAmount' = delete_components(pk)
            /\ shoppingList' = Cascade(shoppingList, {}, {pk})
            /\ favorite' = Cascade(favorite, {}, {pk})
            /\ response' = Reply("destroy", 204)
    /\ rerun' = FALSE
    /\ UNCHANGED <<accounts, request, storage>>
    /\ inflight' = Witnessed(dish', ingredientAmount', shoppingList')

\* The account u is deleted (the destroy of the djoser view set, or the
\* admin site): it goes with its cart entries, favorites and
\* subscriptions, and with the recipes it created and all that refers to
\* them.
DestroyUser(u) ==
    /\ customUser' = customUser \ {u}
    /\ follow' = [v \in Users |-> [w \in Users |->
                     IF v = u \/ w = u THEN 0 ELSE follow[v][w]]]
    /\ dish' = [r \in DOMAIN dish \ created_dishes({u}) |-> dish[r]]
    /\ ingredientAmount' =
           {a \in ingredientAmount : a.recipe \notin created_dishes({u})}
    /\ shoppingList' = Cascade(shoppingList, {u}, created_dishes({u}))
    /\ favorite' = Cascade(favorite, {u}, created_dishes({u}))
    /\ response' = Reply("destroy_user", 204)
    /\ rerun' = FALSE
    /\ UNCHANGED <<request, storage>>
    /\ inflight' = Witnessed(dish', ingredientAmount', shoppingList')

\* Both recipes are in the cart of both users.
FullCart == [u \in Users |-> [r \in DishIds |->
                IF r \in DOMAIN GivenDish THEN 1 ELSE 0]]

InitCascade ==
    /\ dish = GivenDish
    /\ ingredientAmount = GivenLines
    /\ shoppingList = FullCart
    /\ response = NoResponse
    /\ rerun = FALSE
    /\ customUser = Users
    /\ favorite = NoRows
    /\ follow = NoFollow
    /\ request = NoRequest
    /\ inflight = [s \in Slots |-> Idle]
    /\ storage = "up"

\* Recipes and accounts are deleted; no cart entry is removed by a request
\* of its own, so an entry that is gone went with its recipe or its user.
\* A deleted account sends no request (its token went with it).
NextCascade ==
    \/ \E u \in customUser, pk \in DishIds : DestroyDish(u, pk)
    \/ \E u \in customUser : DestroyUser(u)
    \/ \E u \in customUser, pk \in DishIds : AddToCart(u, pk)
    \/ \E u \in customUser, pk \in DishIds : AddToFavorites(u, pk)
    \/ \E u \in customUser, pk \in DishIds : RemoveFromFavorites(u, pk)
    \/ \E u \in customUser, id \in Users : Subscribe(u, id)
    \/ \E u \in customUser, date \in Dates : Export(u, date)

SpecCascade == InitCascade /\ [][NextCascade]_vars

(***************************************************************************)
(* Recipes are written: created and updated, one request after the other.  *)
(***************************************************************************)
\* The ingredients lists submitted: items of two ingredients of the
\* catalog, every amount from 0 on.
WriteLists ==
    {l \in ItemLists : \A i \in 1..Len(l) : l[i].ingredient \in {1, 3}}

WriteRequests ==
    {Request("create", "POST", 1, 0, Str_Jam, items, 0) :
        items \in WriteLists}
    \cup {Request("update", "PUT", 1, pk, Str_Pie, items, 0) :
        pk \in DishIds, items \in WriteLists}

NextWrite ==
    \/ \E rq \in WriteRequests : Submit(rq)
    \/ Arrived("create", "POST")
           /\ CreateDish(request.user, request.name, request.items)
    \/ Arrived("update", "PUT")
           /\ UpdateDish(request.user, request.pk, request.name, request.items)

SpecWrite == Init /\ [][NextWrite]_vars

(***************************************************************************)
(* The export and the update of a recipe statement by statement, in        *)
(* flight together with each other and with the requests to the cart.      *)
(* Neither handler opens a transaction: every query reads the tables as    *)
(* they are when it runs, and every write is committed when it is made.    *)
(* No request of these specifications renames or deletes a recipe, so the  *)
(* name the cart query has read with its row (select_related) is the name  *)
(* the recipe has when the file is rendered.                               *)
(***************************************************************************)
\* GET /recipes/download_shopping_cart/ is dispatched to
\* export_shopping_list: IsAuthenticatedOrReadOnly lets every GET through,
\* authenticated or not.
ExportArrive(s, u, date) ==
    /\ inflight[s] = Idle
    /\ UNCHANGED <<dish, ingredientAmount, shoppingList>>
    /\ Goto(s, Handler("export", u, 0, date, "is_authenticated",
                       <<>>, <<>>, <<>>,
                       IF u = AnonymousUser THEN {}
                       ELSE {Moment(u, dish, ingredientAmount,
                                    shoppingList)}))
    /\ UNCHANGED <<rerun, favorite, accounts, request, storage>>

\* Mutant: a user that is not authenticated has an empty cart.
ExportBeginUnchecked(s) ==
    /\ inflight[s].handler = "export"
    /\ inflight[s].pc = "is_authenticated"
    /\ UNCHANGED <<dish, ingredientAmount, shoppingList>>
    /\ LET h == inflight[s]
       IN  IF storage = "down" THEN Return(s, "export", 500)
           ELSE \E items \in IF h.user = AnonymousUser THEN {<<>>}
                             ELSE shopping_lists(h.user) :
                    IF items = <<>>
                    THEN /\ response' = ExportReply(h.user, <<>>, h.date)
                         /\ inflight' = [inflight EXCEPT ![s] = Idle]
                    ELSE Goto(s, [h EXCEPT !.pc = "components",
                                           !.cart = items])
    /\ rerun' = FALSE
    /\ UNCHANGED <<favorite, accounts, request, storage>>

\* export_shopping_list up to the query of the outer loop: the check of
\* request.user, then the cart items, all read by one query.  With no
\* cart item the file is rendered at once.
ExportBegin(s) ==
    /\ inflight[s].handler = "export"
    /\ inflight[s].pc = "is_authenticated"
    /\ UNCHANGED <<dish, ingredientAmount, shoppingList>>
    /\ LET h == inflight[s]
       IN  IF h.user = AnonymousUser THEN Return(s, "export", 403)
           ELSE IF storage = "down" THEN Return(s, "export", 500)
           ELSE \E items \in shopping_lists(h.user) :
                    IF items = <<>>
                    THEN /\ response' = ExportReply(h.user, <<>>, h.date)
                         /\ inflight' = [inflight EXCEPT ![s] = Idle]
                    ELSE Goto(s, [h EXCEPT !.pc = "components",
                                           !.cart = items])
    /\ rerun' = FALSE
    /\ UNCHANGED <<favorite, accounts, request, storage>>

\* Mutant: a query that raises is skipped and the loop goes on.
ExportComponentsOrSkip(s) ==
    /\ inflight[s].handler = "export"
    /\ inflight[s].pc = "components"
    /\ UNCHANGED <<dish, ingredientAmount, shoppingList>>
    /\ LET h == inflight[s]
       IN  \E c \in IF storage = "down" THEN {<<>>}
                    ELSE components_amounts(Head(h.cart)) :
               LET fetched == Append(h.fetched, [recipe |-> Head(h.cart),
                                                 components |-> c])
               IN  IF Tail(h.cart) = <<>>
                   THEN /\ response' = ExportReply(h.user, fetched, h.date)
                        /\ inflight' = [inflight EXCEPT ![s] = Idle]
                   ELSE Goto(s, [h EXCEPT !.cart = Tail(h.cart),
                                          !.fetched = fetched])
    /\ rerun' = FALSE
    /\ UNCHANGED <<favorite, accounts, request, storage>>

\* One turn of the outer loop: the query of the inner loop for the next
\* cart item.  After the last cart item the file is rendered and returned.
\* An error raised by the query is caught nowhere in the handler.
ExportComponents(s) ==
    /\ inflight[s].handler = "export"
    /\ inflight[s].pc = "components"
    /\ UNCHANGED <<dish, ingredientAmount, shoppingList>>
    /\ LET h == inflight[s]
       IN  IF storage = "down" THEN Return(s, "export", 500)
           ELSE \E c \in components_amounts(Head(h.cart)) :
                    LET fetched == Append(h.fetched,
                                          [recipe |-> Head(h.cart),
                                           components |-> c])
                    IN  IF Tail(h.cart) = <<>>
                        THEN /\ response' =
                                    ExportReply(h.user, fetched, h.date)
                             /\ inflight' = [inflight EXCEPT ![s] = Idle]
                        ELSE Goto(s, [h EXCEPT !.cart = Tail(h.cart),
                                               !.fetched = fetched])
    /\ rerun' = FALSE
    /\ UNCHANGED <<favorite, accounts, request, storage>>

\* PUT /recipes/{pk}/ up to super().update(): get_object, is_valid, and
\* the fields of the recipe are saved.
UpdateSave(s, u, pk, name, items) ==
    /\ inflight[s] = Idle
    /\ UNCHANGED <<ingredientAmount, shoppingList>>
    /\ IF pk \notin DOMAIN dish
       THEN UNCHANGED dish /\ Return(s, "update", 404)
       ELSE IF ~validate_ingredients(items)
               \/ \E i \in 1..Len(items) : ~validate_amount(items[i].amount)
       THEN UNCHANGED dish /\ Return(s, "update", 400)
       ELSE /\ dish' = [dish EXCEPT ![pk].name = name]
            /\ Goto(s, Handler("update", u, pk, 0, "delete",
                               <<>>, <<>>, items, {}))
    /\ rerun' = FALSE
    /\ UNCHANGED <<favorite, accounts, request, storage>>

\* instance.components_amounts.all().delete()
UpdateDelete(s) ==
    /\ inflight[s].handler = "update"
    /\ inflight[s].pc = "delete"
    /\ ingredientAmount' = delete_components(inflight[s].pk)
    /\ UNCHANGED <<dish, shoppingList>>
    /\ Goto(s, [inflight[s] EXCEPT !.pc = "bulk_create"])
    /\ rerun' = FALSE
    /\ UNCHANGED <<favorite, accounts, request, storage>>

\* The one INSERT of bulk_create is accepted when its rows name every
\* ingredient once and the recipe has no line of any of them.
bulk_create_accepted(pk, items) ==
    /\ recipe_ingredient_unique(items)
    /\ \A i \in 1..Len(items) :
           ~\E a \in ingredientAmount :
               a.recipe = pk /\ a.ingredient = items[i].ingredient

\* self._bulk_save_ingredients(instance, ingredients)
UpdateBulkCreate(s) ==
    /\ inflight[s].handler = "update"
    /\ inflight[s].pc = "bulk_create"
    /\ UNCHANGED <<dish, shoppingList>>
    /\ IF bulk_create_accepted(inflight[s].pk, inflight[s].items)
       THEN /\ ingredientAmount' =
                   ingredientAmount \cup
                       bulk_save_ingredients(inflight[s].pk, inflight[s].items)
            /\ Return(s, "update", 200)
       ELSE /\ UNCHANGED ingredientAmount
            /\ Return(s, "update", 500)
    /\ rerun' = FALSE
    /\ UNCHANGED <<favorite, accounts, request, storage>>

\* No export in flight has lived through MaxMoments states of the tables
\* yet: one more write may be committed while it runs.
MayWrite ==
    \A s \in Slots :
        inflight[s].handler = "export" =>
            Cardinality(inflight[s].seen) < MaxMoments

\* Exports of every user in slot 1, updates of both recipes with one list
\* of ingredients in slot 2, and the cart handlers, which get in between
\* the statements of the others as a whole.
NextSnapshot ==
    \/ \E u \in Users \cup {AnonymousUser}, date \in Dates :
           ExportArrive(1, u, date)
    \/ \E s \in Slots : ExportBegin(s)
    \/ \E s \in Slots : ExportComponents(s)
    \/ \E u \in Users, pk \in DOMAIN GivenDish :
           UpdateSave(2, u, pk, GivenDish[pk].name, SiteItems)
    \/ MayWrite /\ \E s \in Slots : UpdateDelete(s)
    \/ MayWrite /\ \E s \in Slots : UpdateBulkCreate(s)
    \/ MayWrite /\ \E u \in Users, pk \in DishIds : AddToCart(u, pk)
    \/ MayWrite /\ \E u \in Users, pk \in DishIds : RemoveFromCart(u, pk)

SpecSnapshot == InitSite /\ [][NextSnapshot]_vars

(***************************************************************************)
(* The export while the storage fails: every query made while storage is   *)
(* "down" raises an error.  Both recipes are in both carts.                *)
(***************************************************************************)
StorageFails ==
    /\ storage = "up"
    /\ storage' = "down"
    /\ UNCHANGED <<dish, ingredientAmount, shoppingList, response, rerun,
                   favorite, accounts, request, inflight>>

StorageRecovers ==
    /\ storage = "down"
    /\ storage' = "up"
    /\ UNCHANGED <<dish, ingredientAmount, shoppingList, response, rerun,
                   favorite, accounts, request, inflight>>

NextFailing ==
    \/ StorageFails
    \/ StorageRecovers
    \/ \E s \in Slots, u \in Users \cup {AnonymousUser}, date \in Dates :
           ExportArrive(s, u, date)
    \/ \E s \in Slots : ExportBegin(s)
    \/ \E s \in Slots : ExportComponents(s)

SpecFailing == InitCascade /\ [][NextFailing]_vars

(***************************************************************************)
(* The subscriptions through both user views: AccountManager.follow_author *)
(* and CustomUserViewSet.follow.  A request arrives (Submit), then its     *)
(* handler answers it.                                                     *)
(***************************************************************************)
\* An id no CustomUser row has.
UnknownUser == 3

\* Mutant: the row is created without the exists() before it.
FollowPostUnchecked(u, id) ==
    /\ IF id \notin customUser
       THEN /\ response' = Reply("follow", 404)
            /\ UNCHANGED follow
       ELSE IF id = u
       THEN /\ response' = Reply("follow", 400)
            /\ UNCHANGED follow
       ELSE /\ follow' = [follow EXCEPT ![u][id] = @ + 1]
            /\ response' = Reply("follow", 201)
    /\ rerun' = FALSE
    /\ UNCHANGED <<dish, ingredientAmount, shoppingList, favorite, customUser,
                   request, inflight, storage>>

\* CustomUserViewSet.follow, POST /users/{pk}/subscribe/: the target is
\* looked up, then compared with request.user, then exists() and create().
\* Run alone, create() follows an exists() that found no row and is not
\* refused.
FollowPost(u, id) ==
    /\ IF id \notin customUser
       THEN /\ response' = Reply("follow", 404)
            /\ UNCHANGED follow
       ELSE IF id = u
       THEN /\ response' = Reply("follow", 400)
            /\ UNCHANGED follow
       ELSE LET got == modify_recipe_list(follow[u][id])
            IN  /\ follow' = [follow EXCEPT ![u][id] = got.rows]
                /\ response' = Reply("follow", got.status)
    /\ rerun' = FALSE
    /\ UNCHANGED <<dish, ingredientAmount, shoppingList, favorite, customUser,
                   request, inflight, storage>>

\* CustomUserViewSet.follow, DELETE: get_object_or_404(Follow, ...), then
\* delete().
FollowDelete(u, id) ==
    /\ IF id \notin customUser
       THEN /\ response' = Reply("follow", 404)
            /\ UNCHANGED follow
       ELSE IF id = u
       THEN /\ response' = Reply("follow", 400)
            /\ UNCHANGED follow
       ELSE IF follow[u][id] = 0
       THEN /\ response' = Reply("follow", 404)
            /\ UNCHANGED follow
       ELSE /\ follow' = [follow EXCEPT ![u][id] = 0]
            /\ response' = Reply("follow", 204)
    /\ rerun' = FALSE
    /\ UNCHANGED <<dish, ingredientAmount, shoppingList, favorite, customUser,
                   request, inflight, storage>>

\* The subscribe and unsubscribe requests of every user through both
\* views, for every user id and for an id that does not exist.
FollowRequests ==
    {Request(h, m, u, id, <<>>, <<>>, 0) :
        h \in {"follow_author", "follow"}, m \in {"POST", "DELETE"},
        u \in Users, id \in Users \cup {UnknownUser}}

NextFollow ==
    \/ \E rq \in FollowRequests : Submit(rq)
    \/ Arrived("follow_author", "POST")
           /\ Subscribe(request.user, request.pk)
    \/ Arrived("follow_author", "DELETE")
           /\ Unsubscribe(request.user, request.pk)
    \/ Arrived("follow", "POST") /\ FollowPost(request.user, request.pk)
    \/ Arrived("follow", "DELETE") /\ FollowDelete(request.user, request.pk)

SpecFollow == InitSite /\ [][NextFollow]_vars

(***************************************************************************)
(* The writes of a recipe with and without an ingredients list, next to    *)
(* the cart of another user.                                               *)
(***************************************************************************)
\* PATCH /recipes/{pk}/ with a name and no "ingredients" in the body: the
\* serializer is partial, so the field is not required and its validators
\* do not run; update() pops components_amounts with the default [],
\* deletes the lines of the recipe and creates none.
PartialUpdateDish(u, pk, name) ==
    /\ IF pk \notin DOMAIN dish
       THEN /\ response' = Reply("partial_update", 404)
            /\ UNCHANGED <<dish, ingredientAmount>>
       ELSE /\ dish' = [dish EXCEPT ![pk].name = name]
            /\ ingredientAmount' =
                   delete_components(pk) \cup bulk_save_ingredients(pk, <<>>)
            /\ response' = Reply("partial_update", 200)
    /\ rerun' = FALSE
    /\ UNCHANGED <<shoppingList, favorite, accounts, request, storage>>
    /\ inflight' = Witnessed(dish', ingredientAmount', shoppingList')

\* The ingredients lists submitted: none, one item, two items, and one
\* that repeats an ingredient.
ReplaceLists ==
    {<<>>,
     SiteItems,
     <<[ingredient |-> 1, amount |-> 1], [ingredient |-> 3, amount |-> 1]>>,
     <<[ingredient |-> 1, amount |-> 1], [ingredient |-> 1, amount |-> 2]>>}

\* User 1 creates and updates recipes, with PUT and with PATCH; user 2
\* puts them in the cart.
ReplaceRequests ==
    {Request("create", "POST", 1, 0, Str_Jam, items, 0) :
        items \in ReplaceLists}
    \cup {Request("update", "PUT", 1, pk, Str_Pie, items, 0) :
        pk \in DishIds, items \in ReplaceLists}
    \cup {Request("partial_update", "PATCH", 1, pk, Str_Pie, <<>>, 0) :
        pk \in DishIds}
    \cup {Request("manage_cart", "POST", 2, pk, <<>>, <<>>, 0) :
        pk \in DishIds}

NextReplace ==
    \/ \E rq \in ReplaceRequests : Submit(rq)
    \/ Arrived("create", "POST")
           /\ CreateDish(request.user, request.name, request.items)
    \/ Arrived("update", "PUT")
           /\ UpdateDish(request.user, request.pk, request.name, request.items)
    \/ Arrived("partial_update", "PATCH")
           /\ PartialUpdateDish(request.user, request.pk, request.name)
    \/ Arrived("manage_cart", "POST") /\ AddToCart(request.user, request.pk)

SpecReplace == Init /\ [][NextReplace]_vars

(***************************************************************************)
(* What the claims speak of, stated on the database and on the file, with  *)
(* no use of the handler's own operators.                                  *)
(***************************************************************************)
\* The last request was an export that returned a file.
IsReport == response.handler = "export" /\ response.status = 200

\* The recipes the cart entries of a user refer to, and their lines.
CartRecipes(u) == {r \in DOMAIN dish : shoppingList[u][r] > 0}
CartLines(u) == {a \in ingredientAmount : a.recipe \in CartRecipes(u)}

\* The (name, unit) pair of an ingredient line.
KeyOf(a) ==
    <<Ingredient[a.ingredient].name, Ingredient[a.ingredient].measurement_unit>>
CartKeys(u) == {KeyOf(a) : a \in CartLines(u)}

RECURSIVE SumQuantity(_)
SumQuantity(rows) ==
    IF rows = {} THEN 0
    ELSE LET a == CHOOSE x \in rows : TRUE
         IN  a.quantity + SumQuantity(rows \ {a})

\* The sum of the quantities of a user's cart lines with a given key.
ExpectedTotal(u, key) == SumQuantity({a \in CartLines(u) : KeyOf(a) = key})

\* The numbered lines of the two sections of a file.
FileIngredients(body) == SelectSeq(body, LAMBDA l : l.kind = "ingredient")
FileRecipes(body) == SelectSeq(body, LAMBDA l : l.kind = "recipe")

RECURSIVE SumTotals(_)
SumTotals(lines) ==
    IF lines = <<>> THEN 0 ELSE Head(lines).total + SumTotals(Tail(lines))

\* s comes before t in the lexicographic order of code points.
LexLess(s, t) ==
    \E k \in 1..(Len(t)) :
        /\ \A i \in 1..(k - 1) : i <= Len(s) /\ s[i] = t[i]
        /\ \/ Len(s) = k - 1
           \/ Len(s) >= k /\ s[k] < t[k]

KeyLess(k1, k2) ==
    \/ LexLess(k1[1], k2[1])
    \/ k1[1] = k2[1] /\ LexLess(k1[2], k2[2])

\* C1: every total the file reports is the exact sum of the quantities of
\* the ingredient lines with that (name, unit) over the recipes of the
\* requesting user's cart, and every such pair is reported.
C1_TotalsAreExactSums ==
    IsReport =>
        LET u == response.user
            lines == FileIngredients(response.body)
        IN  /\ Len(lines) = Len(response.totals)
            /\ \A i \in 1..Len(lines) :
                   /\ response.totals[i].key \in CartKeys(u)
                   /\ lines[i].total = ExpectedTotal(u, response.totals[i].key)
            /\ \A key \in CartKeys(u) :
                   \E i \in 1..Len(lines) : response.totals[i].key = key

\* Two recipes of the cart share a pair with quantities 2 and 1 (total 3),
\* and another pair is reported too.
C1_Witness ==
    /\ IsReport
    /\ Cardinality(CartRecipes(response.user)) = 2
    /\ Cardinality(CartKeys(response.user)) >= 2
    /\ \E key \in CartKeys(response.user) :
           /\ Cardinality({a \in CartLines(response.user) : KeyOf(a) = key}) = 2
           /\ ExpectedTotal(response.user, key) = 3

\* C2: conservation: the totals of the file add up to the sum of the
\* quantities of all ingredient lines of the cart's recipes.
C2_Conservation ==
    IsReport =>
        SumTotals(FileIngredients(response.body))
            = SumQuantity(CartLines(response.user))

\* A file of several lines made while the other user's cart holds a recipe
\* that the requesting user's cart does not.
C2_Witness ==
    /\ IsReport
    /\ Cardinality(CartLines(response.user)) >= 2
    /\ Len(FileIngredients(response.body)) >= 2
    /\ \E v \in Users \ {response.user} :
           CartLines(v) \ CartLines(response.user) # {}

\* C3: the file lists as many recipe names as the cart refers to distinct
\* recipes.
C3_RecipeCountMatches ==
    IsReport =>
        Len(FileRecipes(response.body))
            = Cardinality(CartRecipes(response.user))

\* C4: the ingredient lines stand in strictly ascending order of the key
\* (name, then unit), each line being the rendering of its key, and the
\* recipe names stand in strictly ascending order.
C4_StrictlyAscending ==
    IsReport =>
        LET lines == FileIngredients(response.body)
            names == FileRecipes(response.body)
        IN  /\ Len(lines) = Len(response.totals)
            /\ \A i \in 1..Len(lines) :
                   /\ lines[i].name = Title(response.totals[i].key[1])
                   /\ lines[i].unit = response.totals[i].key[2]
            /\ \A i, j \in 1..Len(lines) :
                   i < j => KeyLess(response.totals[i].key,
                                    response.totals[j].key)
            /\ \A i, j \in 1..Len(names) :
                   i < j => LexLess(names[i].name, names[j].name)

\* Three keys, two of them with one name and two units, and two recipe
\* names.
C4_Witness ==
    /\ IsReport
    /\ Len(FileIngredients(response.body)) = 3
    /\ Len(FileRecipes(response.body)) = 2

\* C5: whatever the order in which storage returns the cart entries and
\* each recipe's lines, the file of the same date is the same.
C5_OrderIndependent ==
    IsReport =>
        \A fetched \in Fetches(response.user) :
            ExportReply(response.user, fetched, response.date).body
                = response.body

\* Two cart entries, one of them a recipe of two lines: eight orders.
C5_Witness ==
    /\ IsReport
    /\ Cardinality(Fetches(response.user)) >= 4
    /\ Len(FileIngredients(response.body)) >= 2

\* C6: an export repeated for the same user on the same date, the database
\* unchanged in between, returns the same file.
C6_Deterministic ==
    [][rerun' => response'.body = response.body]_vars

\* A second run, whose queries had several orders to return.
C6_Witness ==
    /\ rerun
    /\ IsReport
    /\ Cardinality(Fetches(response.user)) >= 4

\* C7: the export of an authenticated user with an empty cart returns a
\* file of the three headers and no numbered line.
C7_EmptyCart ==
    (/\ response.handler = "export"
     /\ response.user \in Users
     /\ CartRecipes(response.user) = {}) =>
        /\ response.status = 200
        /\ Len(response.body) = 3
        /\ response.body[1].kind = "title"
        /\ response.body[1].total = response.date
        /\ response.body[2].kind = "ingredients"
        /\ response.body[3].kind = "sources"

\* An empty cart exported while recipes exist and the other user's cart is
\* not empty.
C7_Witness ==
    /\ IsReport
    /\ CartRecipes(response.user) = {}
    /\ \E v \in Users : CartLines(v) # {}

\* C8: one ingredient line per distinct (name, unit) pair of the cart's
\* recipes.
C8_OneLinePerKey ==
    IsReport =>
        /\ Len(FileIngredients(response.body))
               = Cardinality(CartKeys(response.user))
        /\ \A i, j \in 1..Len(response.totals) :
               response.totals[i].key = response.totals[j].key => i = j

\* Two recipes of the cart hold the same ingredient.
C8_Witness ==
    /\ IsReport
    /\ \E a, b \in CartLines(response.user) :
           a.recipe # b.recipe /\ KeyOf(a) = KeyOf(b)

\* C9: two keys of the cart that differ only in the letter case of the
\* name keep separate lines with their own totals, displayed under the
\* same name.
C9_CaseSensitiveKeys ==
    IsReport =>
        LET u == response.user
            lines == FileIngredients(response.body)
        IN  \A k1, k2 \in CartKeys(u) :
                (k1 # k2 /\ Lowered(k1[1]) = Lowered(k2[1]) /\ k1[2] = k2[2]) =>
                    \E i, j \in 1..Len(lines) :
                        /\ i # j
                        /\ Len(lines) = Len(response.totals)
                        /\ response.totals[i].key = k1
                        /\ response.totals[j].key = k2
                        /\ lines[i].total = ExpectedTotal(u, k1)
                        /\ lines[j].total = ExpectedTotal(u, k2)
                        /\ lines[i].name = lines[j].name

\* "egg" and "Egg", both in pieces, with different totals.
C9_Witness ==
    /\ IsReport
    /\ \E k1, k2 \in CartKeys(response.user) :
           /\ k1 # k2
           /\ Lowered(k1[1]) = Lowered(k2[1])
           /\ k1[2] = k2[2]
           /\ ExpectedTotal(response.user, k1) # ExpectedTotal(response.user, k2)

\* A cart entry of the requesting user is there more than once.
CartHasDuplicates ==
    \E r \in DOMAIN dish : shoppingList[response.user][r] > 1

\* The name of every recipe of the cart is listed once.
NamesListedOnce ==
    LET names == FileRecipes(response.body)
    IN  \A r \in CartRecipes(response.user) :
            Cardinality({i \in 1..Len(names) : names[i].name = dish[r].name}) = 1

\* The quantities of a user's cart lines with a given key, each taken as
\* often as the cart has entries for its recipe.
RECURSIVE SumPerEntry(_, _)
SumPerEntry(u, rows) ==
    IF rows = {} THEN 0
    ELSE LET a == CHOOSE x \in rows : TRUE
         IN  a.quantity * shoppingList[u][a.recipe] + SumPerEntry(u, rows \ {a})

Answered(handlers, method) ==
    /\ response = NoResponse
    /\ response' # NoResponse
    /\ request.handler \in handlers
    /\ request.method = method

\* C11: the export has no side effect: the step that answers an export
\* request, of an authenticated user or not, with an empty cart or not,
\* leaves the cart entries, the favorites, the recipes, the ingredient
\* lines, the accounts and the subscriptions as they were.  (The
\* ingredients are the constant catalog and the same in every state.)
C11_ExportHasNoSideEffect ==
    [][Answered({"export"}, "GET") =>
          UNCHANGED <<shoppingList, favorite, dish, ingredientAmount,
                      customUser, follow>>]_vars

\* A file was returned while the requester's cart, the favorites and the
\* subscriptions held rows.
C11_Witness ==
    /\ request.handler = "export"
    /\ IsReport
    /\ CartLines(response.user) # {}
    /\ \E u \in Users, r \in DishIds : favorite[u][r] > 0
    /\ \E u, v \in Users : follow[u][v] > 0

(***************************************************************************)
(* Claims about handlers that run at the same time.                        *)
(***************************************************************************)
\* C12: whatever the interleaving of the statements of POST and DELETE
\* requests to the cart through manage_cart and through shopping_list, the
\* cart holds at most one entry per (user, recipe).
C12_OneEntryPerUserAndRecipe ==
    \A u \in Users, r \in DishIds : shoppingList[u][r] <= 1

\* Two POSTs of one user for one recipe raced: the get_or_create of
\* manage_cart found no row, its INSERT was refused, and the row that
\* refused it was created through shopping_list in between.
C12_Witness ==
    /\ response = Reply("shopping_list", 201)
    /\ \E s \in Slots :
           /\ inflight[s].handler = "manage_cart"
           /\ inflight[s].pc = "get_again"
           /\ shoppingList[inflight[s].user][inflight[s].pk] = 1

(***************************************************************************)
(* Claims about deletion (SpecCascade).                                    *)
(***************************************************************************)
\* The recipes of the start that have been deleted since.
DeletedDishes == DOMAIN GivenDish \ DOMAIN dish

\* C13: every cart entry refers to an account and a recipe that exist, and
\* a file made after the deletion of a recipe lists neither the name of the
\* deleted recipe nor its quantities: its totals are the sums over the
\* lines of the recipes that are left in the cart.
C13_CartEntriesCascade ==
    /\ \A u \in Users, r \in DishIds :
           shoppingList[u][r] > 0 => u \in customUser /\ r \in DOMAIN dish
    /\ IsReport =>
           LET u == response.user
               names == FileRecipes(response.body)
               lines == FileIngredients(response.body)
           IN  /\ \A i \in 1..Len(names), r \in DeletedDishes :
                      names[i].name # GivenDish[r].name
               /\ \A i \in 1..Len(names) :
                      \E r \in CartRecipes(u) : names[i].name = dish[r].name
               /\ Len(lines) = Len(response.totals)
               /\ \A i \in 1..Len(lines) :
                      /\ response.totals[i].key \in CartKeys(u)
                      /\ lines[i].total
                             = ExpectedTotal(u, response.totals[i].key)
               /\ SumTotals(lines)
                      = SumQuantity({a \in GivenLines :
                                       a.recipe \in CartRecipes(u)})

\* A file made for user 1 after recipe 2, which was in the cart of user 1
\* from the start, went with the account of its author: the file lists
\* one recipe.
C13_Witness ==
    /\ IsReport
    /\ response.user = 1
    /\ 2 \in DeletedDishes
    /\ 2 \notin customUser
    /\ Len(FileRecipes(response.body)) = 1
    /\ Len(FileIngredients(response.body)) = 1

(***************************************************************************)
(* Claims about the writing of recipes (SpecWrite).                        *)
(***************************************************************************)
\* Every stored ingredient line has a quantity of 1 at least, and a recipe
\* has one line per ingredient at most.
LinesAreValid(lines) ==
    /\ \A a \in lines : a.quantity >= 1
    /\ \A a, b \in lines :
           (a.recipe = b.recipe /\ a.ingredient = b.ingredient) => a = b

\* The ingredients list holds a quantity below 1 or names an ingredient
\* twice.
HasBadItem(items) ==
    \/ \E i \in 1..Len(items) : items[i].amount < 1
    \/ \E i, j \in 1..Len(items) :
           i # j /\ items[i].ingredient = items[j].ingredient

\* C14: through create and update requests every stored ingredient line
\* keeps a quantity of 1 at least and every (recipe, ingredient) has one
\* line at most; a write whose list holds a quantity below 1 or repeats an
\* ingredient is answered with an error and adds no line.
C14_LinesStayValid ==
    [][/\ LinesAreValid(ingredientAmount)
       /\ LinesAreValid(ingredientAmount')
       /\ (/\ response = NoResponse
           /\ response' # NoResponse
           /\ request.handler \in {"create", "update"}
           /\ HasBadItem(request.items)) =>
              /\ response'.status \in {400, 404, 500}
              /\ ingredientAmount' \subseteq ingredientAmount]_vars

\* An update that repeats an ingredient, with every quantity 1 at least,
\* was answered with 500 while another recipe holds two lines.
C14_Witness ==
    /\ request.handler = "update"
    /\ response.handler = "update"
    /\ response.status = 500
    /\ HasBadItem(request.items)
    /\ \A i \in 1..Len(request.items) : request.items[i].amount >= 1
    /\ \E a, b \in ingredientAmount : a.recipe = b.recipe /\ a # b

\* C15: the export of a user that is not authenticated reads nothing and
\* is answered with 403: while it is in flight it has made no query, and
\* its only step returns the refusal.
C15_UnauthenticatedIsRefused ==
    [][\A s \in Slots :
          (inflight[s].handler = "export"
           /\ inflight[s].user = AnonymousUser) =>
              /\ inflight[s].pc = "is_authenticated"
              /\ inflight[s].cart = <<>>
              /\ inflight[s].fetched = <<>>
              /\ (inflight'[s] # inflight[s]) =>
                     /\ inflight'[s] = Idle
                     /\ response' = Reply("export", 403)]_vars

\* The export of a user that is not authenticated was refused while both
\* carts hold entries and an update is half-way.
C15_Witness ==
    /\ response = Reply("export", 403)
    /\ \A u \in Users : CartLines(u) # {}
    /\ \E s \in Slots : inflight[s].pc = "bulk_create"

\* C16: a query of the export that fails ends the handler with the error:
\* the step that makes a query while the storage is down (the cart query
\* or the query of a recipe's ingredient lines, whatever has been read
\* before) returns 500 without a file, and the handler makes no further
\* query.
C16_RetrievalFailurePropagates ==
    [][\A s \in Slots :
          (/\ inflight[s].handler = "export"
           /\ inflight[s].user \in Users
           /\ storage = "down"
           /\ inflight'[s] # inflight[s]) =>
              /\ inflight'[s] = Idle
              /\ response' = Reply("export", 500)
              /\ response'.body = <<>>]_vars

\* A query failed, and the other export in flight has read the lines of
\* its first recipe and has its second query to make.
C16_Witness ==
    /\ response = Reply("export", 500)
    /\ storage = "down"
    /\ \E s \in Slots :
           /\ inflight[s].pc = "components"
           /\ Len(inflight[s].fetched) = 1
           /\ Len(inflight[s].cart) = 1

\* What an export of the user reads.  The file is the same in whatever
\* order the rows are read (C5), so one order is taken.
FetchOf(u) == CHOOSE fetched \in Fetches(u) : TRUE

\* The file an export of the user returns on date 1.
ReportsOf(u) == ExportReply(u, FetchOf(u), 1).body

\* The file an export of the user returns after the step.  While the
\* recipes keep their names it is made from the rows read after the step.
ReportsAfter(u) ==
    IF dish' = dish
    THEN ExportReply(u, FetchOf(u)', 1).body
    ELSE ReportsOf(u)'

\* The step leaves the report of the user as it was.  The file is computed
\* from the three tables, so it is compared only when a table has changed.
SameReports(u) ==
    \/ UNCHANGED <<dish, ingredientAmount, shoppingList>>
    \/ ReportsAfter(u) = ReportsOf(u)

CartHandlers == {"manage_cart", "shopping_list"}
EntryHandlers == CartHandlers \cup {"add_to_favorites", "favorite_recipe"}

\* The request is an operation of its user on that user's own data: a cart
\* or favorites entry, an export, or the edit of a recipe the user wrote.
OnOwnData ==
    \/ request.handler \in EntryHandlers \cup {"export"}
    \/ /\ request.handler = "update"
       /\ request.pk \in DOMAIN dish
       /\ dish[request.pk].author = request.user

MomentRecipes(m) == {r \in DOMAIN m.dish : m.cart[r] > 0}
MomentLines(m) == {a \in m.lines : a.recipe \in MomentRecipes(m)}
MomentTotals(m) ==
    {<<key, SumQuantity({a \in MomentLines(m) : KeyOf(a) = key})>> :
        key \in {KeyOf(a) : a \in MomentLines(m)}}
MomentNames(m) == {m.dish[r].name : r \in MomentRecipes(m)}

\* The file lists the recipes and the totals of the moment.
ReportOfMoment(reply, m) ==
    /\ {reply.totals[i].key : i \in 1..Len(reply.totals)}
           = {t[1] : t \in MomentTotals(m)}
    /\ \A i \in 1..Len(reply.totals) :
           <<reply.totals[i].key, reply.totals[i].total>> \in MomentTotals(m)
    /\ LET names == FileRecipes(reply.body)
       IN  {names[i].name : i \in 1..Len(names)} = MomentNames(m)

\* C18: the file an export returns is the aggregation of the cart entries
\* and the ingredient lines as they were together at one moment between
\* the arrival of the request and its response.
C18_ConsistentSnapshot ==
    [][\A s \in Slots :
          (/\ inflight[s].handler = "export"
           /\ inflight[s].user \in Users
           /\ inflight'[s] = Idle
           /\ response'.handler = "export"
           /\ response'.status = 200) =>
              \E m \in inflight[s].seen : ReportOfMoment(response', m)]_vars

(***************************************************************************)
(* Claims about the entries of the cart and of the favorites (SpecSite).   *)
(***************************************************************************)
FavoriteHandlers == {"add_to_favorites", "favorite_recipe"}

\* C19: a POST for a recipe the user has an entry for already is answered
\* 400 and leaves the cart and the favorites as they were; with no entry
\* it is answered 201 and creates the one entry of (user, recipe) in the
\* relation it is about, and nothing else.  Both for the views of
\* _handle_bookmark and for those of _modify_recipe_list.
C19_AddIsValidated ==
    [][/\ (Answered(CartHandlers, "POST") /\ request.pk \in DOMAIN dish) =>
              /\ favorite' = favorite
              /\ IF shoppingList[request.user][request.pk] > 0
                 THEN /\ response'.status = 400
                      /\ shoppingList' = shoppingList
                 ELSE /\ response'.status = 201
                      /\ shoppingList' =
                             [shoppingList EXCEPT
                                 ![request.user][request.pk] = 1]
       /\ (Answered(FavoriteHandlers, "POST")
           /\ request.pk \in DOMAIN dish) =>
              /\ shoppingList' = shoppingList
              /\ IF favorite[request.user][request.pk] > 0
                 THEN /\ response'.status = 400
                      /\ favorite' = favorite
                 ELSE /\ response'.status = 201
                      /\ favorite' =
                             [favorite EXCEPT
                                 ![request.user][request.pk] = 1]]_vars

\* A second POST to the favorites was refused through the other view,
\* the recipe being in the cart of the same user too.
C19_Witness ==
    /\ request.handler = "favorite_recipe"
    /\ request.method = "POST"
    /\ response = Reply("favorite_recipe", 400)
    /\ favorite[request.user][request.pk] = 1
    /\ shoppingList[request.user][request.pk] = 1

\* C20: a DELETE on the cart is answered 204 whether the entry is there or
\* not; afterwards the user has no entry for the recipe; a DELETE with no
\* entry changes nothing; the entries of other users and for other
\* recipes, and all favorites, stay.
C20_RemoveIsIdempotent ==
    [][(Answered(CartHandlers, "DELETE") /\ request.pk \in DOMAIN dish) =>
          /\ response'.status = 204
          /\ shoppingList'[request.user][request.pk] = 0
          /\ \A u \in Users, r \in DishIds :
                 (u # request.user \/ r # request.pk) =>
                     shoppingList'[u][r] = shoppingList[u][r]
          /\ favorite' = favorite
          /\ shoppingList[request.user][request.pk] = 0 =>
                 shoppingList' = shoppingList]_vars

\* A DELETE through _modify_recipe_list was answered; the other recipe is
\* in the cart of the user, the same recipe is in the cart of the other
\* user and in the favorites of the user.
C20_Witness ==
    /\ request = Request("shopping_list", "DELETE", 1, 1, <<>>, <<>>, 0)
    /\ response = Reply("shopping_list", 204)
    /\ shoppingList[1] = [r \in DishIds |-> IF r = 2 THEN 1 ELSE 0]
    /\ shoppingList[2][1] = 1
    /\ favorite[1][1] = 1

(***************************************************************************)
(* Claims about the subscriptions (SpecFollow).                            *)
(***************************************************************************)
\* No Follow record of a user to itself, and one record at most per pair.
FollowIsValid(rows) ==
    \A u \in Users, v \in Users :
        /\ rows[u][v] <= 1
        /\ u = v => rows[u][v] = 0

FollowHandlers == {"follow_author", "follow"}

\* C21: before and after every subscribe and unsubscribe request through
\* either view no user follows itself and no pair has two records; a
\* subscribe request for oneself, or for a user one follows already, is
\* answered 400 and leaves the Follow records as they were.
C21_FollowStaysValid ==
    [][/\ FollowIsValid(follow)
       /\ FollowIsValid(follow')
       /\ (/\ Answered(FollowHandlers, "POST")
           /\ request.pk \in customUser
           /\ \/ request.pk = request.user
              \/ follow[request.user][request.pk] > 0) =>
              /\ response'.status = 400
              /\ follow' = follow]_vars

\* User 1 follows user 2, user 2 follows user 1, and a second subscribe
\* request of user 1 for user 2, through the other view, was refused.
C21_Witness ==
    /\ request = Request("follow", "POST", 1, 2, <<>>, <<>>, 0)
    /\ response = Reply("follow", 400)
    /\ follow[1][2] = 1
    /\ follow[2][1] = 1

(***************************************************************************)
(* Claims about the update of a recipe (SpecReplace).                      *)
(***************************************************************************)
\* The ingredient lines of a recipe.
LinesOf(lines, pk) == {a \in lines : a.recipe = pk}

\* C22: after a successful update the lines of the recipe are exactly the
\* (ingredient, quantity) items the update was given, the lines of every
\* other recipe and the cart entries are as before; a write of a recipe
\* whose ingredients list is empty is refused and changes nothing.
C22_UpdateReplacesLines ==
    [][(/\ response = NoResponse
        /\ response' # NoResponse
        /\ request.handler \in {"create", "update", "partial_update"}) =>
          /\ (/\ request.handler \in {"update", "partial_update"}
              /\ response'.status = 200) =>
                 /\ LinesOf(ingredientAmount', request.pk)
                        = bulk_save_ingredients(request.pk, request.items)
                 /\ \A r \in DishIds \ {request.pk} :
                        LinesOf(ingredientAmount', r)
                            = LinesOf(ingredientAmount, r)
                 /\ shoppingList' = shoppingList
          /\ request.items = <<>> =>
                 /\ response'.status \in {400, 404}
                 /\ UNCHANGED <<dish, ingredientAmount, shoppingList>>]_vars

====
